---- MODULE Spec2Model ----
(***************************************************************************)
(* Model of servers/serpapi_flights_server.py: the search_flights tool,    *)
(* its helpers _add_param, _validate_max_price and                         *)
(* _validate_multicity_segments, and the single HTTP GET it issues.        *)
(***************************************************************************)
EXTENDS Integers, Sequences, FiniteSets, TLC

(***************************************************************************)
(* Python values.  Every scalar is a record of the same shape so that any  *)
(* two of them can be compared: t is the Python type, s the characters of  *)
(* a str, n the number of an int or bool, toks the tokens of a JSON text   *)
(* (a str whose content is looked into by json.loads).                     *)
(***************************************************************************)
None == [t |-> "none", s |-> "", n |-> 0, toks |-> <<>>]

PyStr(x) == [t |-> "str", s |-> x, n |-> 0, toks |-> <<>>]

PyInt(k) == [t |-> "int", s |-> "", n |-> k, toks |-> <<>>]

PyBool(b) == [t |-> "bool", s |-> "", n |-> IF b THEN 1 ELSE 0, toks |-> <<>>]

Text(tk) == [t |-> "text", s |-> "", n |-> 0, toks |-> tk]

\* value == "" in Python: a str of no characters
IsEmptyStr(v) == (v.t = "str" /\ v.s = "") \/ (v.t = "text" /\ v.toks = <<>>)

\* bool(value) in Python: None, "", 0 and False are falsy
Truthy(v) ==
    CASE v.t = "none" -> FALSE
      [] v.t = "str" -> v.s # ""
      [] v.t = "text" -> v.toks # <<>>
      [] v.t = "int" -> v.n # 0
      [] v.t = "bool" -> v.n # 0
      [] OTHER -> FALSE

\* str(value).lower() for the boolean flags
StrLower(v) ==
    CASE v.t = "bool" -> PyStr(IF v.n = 1 THEN "true" ELSE "false")
      [] v.t = "none" -> PyStr("none")
      [] OTHER -> v

(***************************************************************************)
(* JSON texts are sequences of tokens; a key with its scalar value is one  *)
(* token.  JSON values are scalars, dicts (functions from keys) and lists. *)
(***************************************************************************)
Tok(c) == [tk |-> c, k |-> "", v |-> None]

Pair(k, v) == [tk |-> "pair", k |-> k, v |-> v]

Scalar(v) == [tk |-> "scalar", k |-> "", v |-> v]

JScalar(v) == [kind |-> "scalar", v |-> v, d |-> <<>>, items |-> <<>>]

JDict(d) == [kind |-> "dict", v |-> None, d |-> d, items |-> <<>>]

JList(xs) == [kind |-> "list", v |-> None, d |-> <<>>, items |-> xs]

ParseFail == [ok |-> FALSE, val |-> JScalar(None), next |-> 0]

ParseOk(val, next) == [ok |-> TRUE, val |-> val, next |-> next]

TokAt(t, p) == IF p >= 1 /\ p <= Len(t) THEN t[p].tk ELSE "eof"

RECURSIVE ParsePairs(_, _, _)
\* the members of an object after "{" or ",": later duplicates of a key win
ParsePairs(t, p, d) ==
    IF TokAt(t, p) # "pair" THEN ParseFail
    ELSE LET d2 == (t[p].k :> t[p].v) @@ d
         IN  CASE TokAt(t, p + 1) = "}" -> ParseOk(JDict(d2), p + 2)
               [] TokAt(t, p + 1) = "," -> ParsePairs(t, p + 2, d2)
               [] OTHER -> ParseFail

RECURSIVE ParseValue(_, _)
RECURSIVE ParseItems(_, _, _)
\* the elements of an array after "[" or ","
ParseItems(t, p, xs) ==
    LET r == ParseValue(t, p)
    IN  IF ~r.ok THEN ParseFail
        ELSE CASE TokAt(t, r.next) = "]" ->
                      ParseOk(JList(Append(xs, r.val)), r.next + 1)
               [] TokAt(t, r.next) = "," ->
                      ParseItems(t, r.next + 1, Append(xs, r.val))
               [] OTHER -> ParseFail

ParseValue(t, p) ==
    CASE TokAt(t, p) = "scalar" -> ParseOk(JScalar(t[p].v), p + 1)
      [] TokAt(t, p) = "{" ->
             IF TokAt(t, p + 1) = "}" THEN ParseOk(JDict(<<>>), p + 2)
             ELSE ParsePairs(t, p + 1, <<>>)
      [] TokAt(t, p) = "[" ->
             IF TokAt(t, p + 1) = "]" THEN ParseOk(JList(<<>>), p + 2)
             ELSE ParseItems(t, p + 1, <<>>)
      [] OTHER -> ParseFail

\* json.loads: one value and nothing after it, else JSONDecodeError
json_loads(t) ==
    LET r == ParseValue(t, 1)
    IN  IF r.ok /\ r.next = Len(t) + 1 THEN r ELSE ParseFail

\* dict.get(key): None when the key is absent
Get(d, k) == IF k \in DOMAIN d THEN d[k] ELSE None

(***************************************************************************)
(* _add_param, _validate_max_price and one pass of the loop of             *)
(* _validate_multicity_segments.                                           *)
(***************************************************************************)
\* _add_param: the key is set unless the value is None or ""
_add_param(ps, key, value) ==
    IF value.t # "none" /\ ~IsEmptyStr(value) THEN (key :> value) @@ ps ELSE ps

\* int(str) for the strings the model passes; any other str is a ValueError
IntOfStr(x) ==
    CASE x = "500" -> [ok |-> TRUE, n |-> 500]
      [] x = "0" -> [ok |-> TRUE, n |-> 0]
      [] OTHER -> [ok |-> FALSE, n |-> 0]

\* _validate_max_price: None passes as None, int(max_price) must be > 0
_validate_max_price(max_price) ==
    IF max_price.t = "none" THEN [ok |-> TRUE, val |-> None]
    ELSE LET c == CASE max_price.t = "int" -> [ok |-> TRUE, n |-> max_price.n]
                    [] max_price.t = "bool" -> [ok |-> TRUE, n |-> max_price.n]
                    [] max_price.t = "str" -> IntOfStr(max_price.s)
                    [] OTHER -> [ok |-> FALSE, n |-> 0]
         IN  IF ~c.ok \/ c.n <= 0 THEN [ok |-> FALSE, val |-> None]
             ELSE [ok |-> TRUE, val |-> PyInt(c.n)]

SegFail(msg, segs) == [ok |-> FALSE, msg |-> msg, segs |-> segs]

\* a loop body that checks arrival, then date, then departure
SegmentStep_ArrivalFirst(segs, i) ==
    LET seg == segs[i]
        noDep == ~Truthy(Get(seg.d, "departure_id"))
        prev_arrival == Get(segs[i - 1].d, "arrival_id")
        seg2 == JDict(("departure_id" :> prev_arrival) @@ seg.d)
    IN  IF seg.kind # "dict" THEN SegFail("not_object", segs)
        ELSE IF ~Truthy(Get(seg.d, "arrival_id"))
             THEN SegFail("missing_arrival", segs)
        ELSE IF ~Truthy(Get(seg.d, "date"))
             THEN SegFail("missing_date", segs)
        ELSE IF noDep /\ i = 1 THEN SegFail("missing_departure_first", segs)
        ELSE IF noDep /\ ~Truthy(prev_arrival)
             THEN SegFail("cannot_infer_departure", segs)
        ELSE [ok |-> TRUE, msg |-> "",
              segs |-> IF noDep THEN [segs EXCEPT ![i] = seg2] ELSE segs]

\* a loop body that fills a missing departure with the previous departure
SegmentStep_WrongSource(segs, i) ==
    LET seg == segs[i]
        noDep == ~Truthy(Get(seg.d, "departure_id"))
        prev_arrival == Get(segs[i - 1].d, "departure_id")
        seg2 == IF noDep
                THEN JDict(("departure_id" :> prev_arrival) @@ seg.d)
                ELSE seg
        segs2 == [segs EXCEPT ![i] = seg2]
    IN  IF seg.kind # "dict" THEN SegFail("not_object", segs)
        ELSE IF noDep /\ i = 1 THEN SegFail("missing_departure_first", segs)
        ELSE IF noDep /\ ~Truthy(prev_arrival)
             THEN SegFail("cannot_infer_departure", segs)
        ELSE IF ~Truthy(Get(seg2.d, "arrival_id"))
             THEN SegFail("missing_arrival", segs2)
        ELSE IF ~Truthy(Get(seg2.d, "date"))
             THEN SegFail("missing_date", segs2)
        ELSE [ok |-> TRUE, msg |-> "", segs |-> segs2]

\* the body of the for loop for the segment at position i (1-based here,
\* so i is also the number the messages print)
SegmentStep(segs, i) ==
    LET seg == segs[i]
        noDep == ~Truthy(Get(seg.d, "departure_id"))
        prev_arrival == Get(segs[i - 1].d, "arrival_id")
        seg2 == IF noDep
                THEN JDict(("departure_id" :> prev_arrival) @@ seg.d)
                ELSE seg
        segs2 == [segs EXCEPT ![i] = seg2]
    IN  IF seg.kind # "dict" THEN SegFail("not_object", segs)
        ELSE IF noDep /\ i = 1 THEN SegFail("missing_departure_first", segs)
        ELSE IF noDep /\ ~Truthy(prev_arrival)
             THEN SegFail("cannot_infer_departure", segs)
        ELSE IF ~Truthy(Get(seg2.d, "arrival_id"))
             THEN SegFail("missing_arrival", segs2)
        ELSE IF ~Truthy(Get(seg2.d, "date"))
             THEN SegFail("missing_date", segs2)
        ELSE [ok |-> TRUE, msg |-> "", segs |-> segs2]

(***************************************************************************)
(* The requests.  DefaultRequest holds the defaults of the signature of    *)
(* search_flights.                                                         *)
(***************************************************************************)
DefaultRequest ==
    [origin |-> None, destination |-> None, departure_date |-> None,
     return_date |-> None, trip_type |-> PyStr("oneway"),
     multi_city_json |-> None, gl |-> None, hl |-> None,
     currency |-> PyStr("TWD"), adults |-> PyInt(1), children |-> PyInt(0),
     infants_in_seat |-> PyInt(0), infants_on_lap |-> PyInt(0),
     travel_class |-> PyInt(1), show_hidden |-> PyBool(FALSE),
     deep_search |-> PyBool(FALSE), sort_by |-> PyInt(1), stops |-> PyInt(0),
     exclude_airlines |-> None, include_airlines |-> None, bags |-> PyInt(0),
     outbound_times |-> None, return_times |-> None,
     layover_duration |-> None, exclude_conns |-> None,
     departure_token |-> None, booking_token |-> None,
     no_cache |-> PyBool(FALSE), async_req |-> PyBool(FALSE),
     zero_trace |-> PyBool(FALSE), output |-> PyStr("json")]

\* the largest number of segments of a generated multi-city itinerary
MaxSegs == 2

SegKeys == <<"departure_id", "arrival_id", "date">>

\* Absent marks a key the segment does not have
Absent == [t |-> "absent", s |-> "", n |-> 0, toks |-> <<>>]

DepartureChoices == {Absent, PyStr(""), PyStr("TPE")}

ArrivalChoices == {Absent, None, PyStr("NRT"), PyStr("KIX")}

DateChoices == {Absent, PyStr("2025-06-29")}

MkSegment(dep, arr, dt) ==
    LET c == [k \in {"departure_id", "arrival_id", "date"} |->
                 CASE k = "departure_id" -> dep
                   [] k = "arrival_id" -> arr
                   [] OTHER -> dt]
    IN  JDict([k \in {k \in DOMAIN c : c[k] # Absent} |-> c[k]])

\* the elements of a generated array: segment objects and one non-object
Elements ==
    {MkSegment(dep, arr, dt) :
        dep \in DepartureChoices, arr \in ArrivalChoices, dt \in DateChoices}
    \cup {JScalar(PyStr("TPE-NRT"))}

RECURSIVE EncodePairs(_, _, _)
\* the members of an object, in the order of SegKeys, comma separated
EncodePairs(d, j, first) ==
    IF j > Len(SegKeys) THEN <<>>
    ELSE IF SegKeys[j] \in DOMAIN d
         THEN (IF first THEN <<>> ELSE <<Tok(",")>>)
              \o <<Pair(SegKeys[j], d[SegKeys[j]])>>
              \o EncodePairs(d, j + 1, FALSE)
         ELSE EncodePairs(d, j + 1, first)

RECURSIVE Encode(_)
RECURSIVE EncodeItems(_, _)
EncodeItems(xs, j) ==
    IF j > Len(xs) THEN <<>>
    ELSE (IF j = 1 THEN <<>> ELSE <<Tok(",")>>)
         \o Encode(xs[j]) \o EncodeItems(xs, j + 1)

\* json.dumps: the text of a JSON value
Encode(x) ==
    CASE x.kind = "scalar" -> <<Scalar(x.v)>>
      [] x.kind = "dict" -> <<Tok("{")>> \o EncodePairs(x.d, 1, TRUE) \o <<Tok("}")>>
      [] OTHER -> <<Tok("[")>> \o EncodeItems(x.items, 1) \o <<Tok("]")>>

\* texts that are no JSON, and JSON texts that are no array
OddTexts ==
    {<<Tok("[")>>,
     <<Tok("["), Tok("{"), Tok("}"), Tok(","), Tok("]")>>,
     <<Tok("["), Tok("]"), Tok("]")>>,
     <<Tok("{"), Pair("departure_id", PyStr("TPE")), Tok(","), Tok("}")>>,
     <<Pair("departure_id", PyStr("TPE"))>>,
     Encode(JScalar(None)),
     Encode(JScalar(PyStr("TPE"))),
     Encode(MkSegment(PyStr("TPE"), PyStr("NRT"), PyStr("2025-06-29")))}

\* every array of at most MaxSegs elements, as a text
ArrayTexts ==
    UNION {{Encode(JList(xs)) : xs \in [1..n -> Elements]} : n \in 0..MaxSegs}

\* the multi_city_json texts of the requests of search_flights
SampleTexts ==
    {Encode(JList(<<>>)),
     <<Tok("["), Tok("{"), Tok("}"), Tok(","), Tok("]")>>,
     Encode(MkSegment(PyStr("TPE"), PyStr("NRT"), PyStr("2025-06-29"))),
     Encode(JList(<<MkSegment(PyStr("TPE"), PyStr("NRT"), PyStr("2025-06-29")),
                    MkSegment(Absent, PyStr("KIX"), PyStr("2025-06-29"))>>)),
     Encode(JList(<<MkSegment(Absent, PyStr("NRT"), PyStr("2025-06-29")),
                    MkSegment(PyStr(""), PyStr("KIX"), PyStr("2025-06-29"))>>)),
     Encode(JList(<<MkSegment(PyStr("TPE"), PyStr("NRT"), PyStr("2025-06-29")),
                    MkSegment(PyStr("NRT"), None, Absent)>>))}

TripTypes == {PyStr("oneway"), PyStr("roundtrip"), PyStr("multicity"), PyStr("weekend")}

Requests ==
    {[DefaultRequest EXCEPT !.trip_type = tt, !.origin = o, !.destination = d,
                            !.departure_date = dd, !.return_date = rd,
                            !.multi_city_json = mc, !.currency = cu,
                            !.adults = ad] :
        tt \in TripTypes,
        o \in {None, PyStr("TPE")},
        d \in {None, PyStr("KIX")},
        dd \in {None, PyStr("2025-06-29")},
        rd \in {None, PyStr(""), PyStr("2025-07-03")},
        mc \in {None, Text(<<>>)} \cup {Text(t) : t \in SampleTexts},
        cu \in {None, PyStr(""), PyStr("TWD")},
        ad \in {None, PyInt(1)}}

\* the maximum-price filters a caller may send along
MaxPrices == {None, PyInt(0), PyInt(500), PyStr("abc")}

\* os.getenv("SERPAPI_API_KEY"): unset, set to nothing, set
ApiKeys == {None, PyStr(""), PyStr("secret")}

(***************************************************************************)
(* The state of one call of search_flights.                                *)
(***************************************************************************)
VARIABLES
    api_key,     \* SERPAPI_API_KEY in the environment
    req,         \* the arguments of the call
    max_price,   \* the maximum-price filter sent with the call
    pc,          \* where the call stands
    type_param,  \* the local type_param, 0 before it is assigned
    params,      \* the local dict params
    segments,    \* the list _validate_multicity_segments works on
    i,           \* the number of segments the loop has passed
    ret,         \* what _validate_multicity_segments returned
    gets,        \* the calls of requests.get made by this call
    outcome      \* how the call ended

vars == <<api_key, req, max_price, pc, type_param, params, segments, i, ret,
          gets, outcome>>

NoOutcome == [kind |-> "none", msg |-> "", seg |-> 0]

Raise(kind, msg, n) == [kind |-> kind, msg |-> msg, seg |-> n]

NotReturned == [returned |-> FALSE, val |-> <<>>]

Init ==
    /\ api_key \in ApiKeys
    /\ req = DefaultRequest
    /\ max_price = None
    /\ pc = "idle"
    /\ type_param = 0
    /\ params = <<>>
    /\ segments = <<>>
    /\ i = 0
    /\ ret = NotReturned
    /\ gets = 0
    /\ outcome = NoOutcome

\* the tool is invoked with a request
Call ==
    /\ pc = "idle"
    /\ \E r \in Requests, mp \in MaxPrices :
          /\ req' = r
          /\ max_price' = mp
    /\ pc' = "check_key"
    /\ UNCHANGED <<api_key, type_param, params, segments, i, ret, gets, outcome>>

\* a credential check that only notices an unset variable
KeyMissing_OnlyUnset(key) == key.t = "none"

\* line 149: not api_key
KeyMissing(key) == ~Truthy(key)

\* lines 148-152: the credential check
CheckKey ==
    /\ pc = "check_key"
    /\ IF KeyMissing(api_key)
       THEN /\ outcome' = Raise("EnvironmentError", "api_key_not_set", 0)
            /\ pc' = "done"
       ELSE /\ pc' = "dispatch"
            /\ UNCHANGED outcome
    /\ UNCHANGED <<api_key, req, max_price, type_param, params, segments, i,
                   ret, gets>>

\* lines 156-168: trip_type decides type_param and what must be there
Dispatch ==
    /\ pc = "dispatch"
    /\ IF req.trip_type = PyStr("roundtrip")
       THEN IF ~Truthy(req.return_date)
            THEN /\ outcome' = Raise("ValueError", "return_date_required", 0)
                 /\ pc' = "done"
                 /\ UNCHANGED type_param
            ELSE /\ type_param' = 1
                 /\ pc' = "assemble"
                 /\ UNCHANGED outcome
       ELSE IF req.trip_type = PyStr("multicity")
            THEN IF ~Truthy(req.multi_city_json)
                 THEN /\ outcome' = Raise("ValueError", "multi_city_json_required", 0)
                      /\ pc' = "done"
                      /\ UNCHANGED type_param
                 ELSE /\ pc' = "parse"
                      /\ UNCHANGED <<outcome, type_param>>
            ELSE /\ type_param' = 2
                 /\ pc' = "assemble"
                 /\ UNCHANGED outcome
    /\ UNCHANGED <<api_key, req, max_price, params, segments, i, ret, gets>>

\* lines 39-44: json.loads and the isinstance check
ParseSegments ==
    /\ pc = "parse"
    /\ LET r == json_loads(req.multi_city_json.toks)
       IN  IF ~r.ok
           THEN /\ outcome' = Raise("ValueError", "not_valid_json", 0)
                /\ pc' = "done"
                /\ UNCHANGED <<segments, i>>
           ELSE IF r.val.kind # "list"
           THEN /\ outcome' = Raise("ValueError", "not_json_array", 0)
                /\ pc' = "done"
                /\ UNCHANGED <<segments, i>>
           ELSE /\ segments' = r.val.items
                /\ i' = 0
                /\ pc' = "loop"
                /\ UNCHANGED outcome
    /\ UNCHANGED <<api_key, req, max_price, type_param, params, ret, gets>>

\* lines 45-67: one pass of the loop, on the segment after the i passed ones
ValidateSegment ==
    /\ pc = "loop"
    /\ i < Len(segments)
    /\ LET r == SegmentStep(segments, i + 1)
       IN  /\ segments' = r.segs
           /\ IF r.ok
              THEN /\ i' = i + 1
                   /\ UNCHANGED <<pc, outcome>>
              ELSE /\ outcome' = Raise("ValueError", r.msg, i + 1)
                   /\ pc' = "done"
                   /\ UNCHANGED i
    /\ UNCHANGED <<api_key, req, max_price, type_param, params, ret, gets>>

\* line 68 and lines 165-166: the loop is over, the list is returned (and
\* dropped by the caller), type_param becomes 3
ReturnSegments ==
    /\ pc = "loop"
    /\ i >= Len(segments)
    /\ ret' = [returned |-> TRUE, val |-> segments]
    /\ type_param' = 3
    /\ pc' = "assemble"
    /\ UNCHANGED <<api_key, req, max_price, params, segments, i, gets, outcome>>

\* lines 170-189: the keys every request carries
BaseParams(r, key, tp) ==
    [k \in {"engine", "api_key", "type", "travel_class", "show_hidden",
            "deep_search", "sort_by", "stops", "bags", "adults", "children",
            "infants_in_seat", "infants_on_lap", "currency", "output",
            "no_cache", "async", "zero_trace"} |->
        CASE k = "engine" -> PyStr("google_flights")
          [] k = "api_key" -> key
          [] k = "type" -> PyInt(tp)
          [] k = "travel_class" -> r.travel_class
          [] k = "show_hidden" -> StrLower(r.show_hidden)
          [] k = "deep_search" -> StrLower(r.deep_search)
          [] k = "sort_by" -> r.sort_by
          [] k = "stops" -> r.stops
          [] k = "bags" -> r.bags
          [] k = "adults" -> r.adults
          [] k = "children" -> r.children
          [] k = "infants_in_seat" -> r.infants_in_seat
          [] k = "infants_on_lap" -> r.infants_on_lap
          [] k = "currency" -> r.currency
          [] k = "output" -> r.output
          [] k = "no_cache" -> StrLower(r.no_cache)
          [] k = "async" -> StrLower(r.async_req)
          [] OTHER -> StrLower(r.zero_trace)]

\* a build that forgets the return date of a round trip
TripParams_NoReturnDate(r, ps) ==
    IF r.trip_type # PyStr("multicity")
    THEN LET p1 == _add_param(ps, "departure_id", r.origin)
             p2 == _add_param(p1, "arrival_id", r.destination)
         IN  _add_param(p2, "outbound_date", r.departure_date)
    ELSE ps

\* a build that passes on whatever return date the caller gave
TripParams_AnyReturnDate(r, ps) ==
    IF r.trip_type # PyStr("multicity")
    THEN LET p1 == _add_param(ps, "departure_id", r.origin)
             p2 == _add_param(p1, "arrival_id", r.destination)
             p3 == _add_param(p2, "outbound_date", r.departure_date)
         IN  IF Truthy(r.return_date)
             THEN _add_param(p3, "return_date", r.return_date)
             ELSE p3
    ELSE ps

\* lines 191-196: the top-level route and dates of a trip that is not multicity
TripParams(r, ps) ==
    IF r.trip_type # PyStr("multicity")
    THEN LET p1 == _add_param(ps, "departure_id", r.origin)
             p2 == _add_param(p1, "arrival_id", r.destination)
             p3 == _add_param(p2, "outbound_date", r.departure_date)
         IN  IF Truthy(r.return_date) /\ r.trip_type = PyStr("roundtrip")
             THEN _add_param(p3, "return_date", r.return_date)
             ELSE p3
    ELSE ps

\* lines 197-198: the segments of a multicity trip, as the caller sent them
MultiCityParams(r, ps) ==
    IF Truthy(r.multi_city_json) /\ r.trip_type = PyStr("multicity")
    THEN _add_param(ps, "multi_city_json", r.multi_city_json)
    ELSE ps

\* lines 199-208: the optional filters
FilterParams(r, ps) ==
    LET q1 == _add_param(ps, "gl", r.gl)
        q2 == _add_param(q1, "hl", r.hl)
        q3 == _add_param(q2, "exclude_airlines", r.exclude_airlines)
        q4 == _add_param(q3, "include_airlines", r.include_airlines)
        q5 == _add_param(q4, "outbound_times", r.outbound_times)
        q6 == _add_param(q5, "return_times", r.return_times)
        q7 == _add_param(q6, "layover_duration", r.layover_duration)
        q8 == _add_param(q7, "exclude_conns", r.exclude_conns)
        q9 == _add_param(q8, "departure_token", r.departure_token)
    IN  _add_param(q9, "booking_token", r.booking_token)

\* lines 170-208: params is put together; max_price is no parameter of
\* search_flights and nothing here reads it
Assemble ==
    /\ pc = "assemble"
    /\ params' = FilterParams(req,
                    MultiCityParams(req,
                       TripParams(req, BaseParams(req, api_key, type_param))))
    /\ pc' = "get"
    /\ UNCHANGED <<api_key, req, max_price, type_param, segments, i, ret, gets,
                   outcome>>

\* a transport step that asks again after a failed request
HttpGet_Retry ==
    /\ pc = "get"
    /\ gets' = gets + 1
    /\ \E status \in {"success", "failure"} :
          IF status = "success"
          THEN outcome' = Raise("returned", "", 0) /\ pc' = "done"
          ELSE outcome' = Raise("HTTPError", "", 0) /\ pc' = "get"
    /\ UNCHANGED <<api_key, req, max_price, type_param, params, segments, i, ret>>

\* lines 210-212: one requests.get; raise_for_status raises HTTPError on a
\* status that is no success, else the JSON body is returned
HttpGet ==
    /\ pc = "get"
    /\ gets' = gets + 1
    /\ \E status \in {"success", "failure"} :
          outcome' = IF status = "success"
                     THEN Raise("returned", "", 0)
                     ELSE Raise("HTTPError", "", 0)
    /\ pc' = "done"
    /\ UNCHANGED <<api_key, req, max_price, type_param, params, segments, i, ret>>

\* the call is over and its locals are gone; the tool waits for the next call
Return ==
    /\ pc = "done"
    /\ pc' = "idle"
    /\ req' = DefaultRequest
    /\ max_price' = None
    /\ type_param' = 0
    /\ params' = <<>>
    /\ segments' = <<>>
    /\ i' = 0
    /\ ret' = NotReturned
    /\ gets' = 0
    /\ outcome' = NoOutcome
    /\ UNCHANGED api_key

Next ==
    \/ Call
    \/ CheckKey
    \/ Dispatch
    \/ ParseSegments
    \/ ValidateSegment
    \/ ReturnSegments
    \/ Assemble
    \/ HttpGet
    \/ Return

Spec == Init /\ [][Next]_vars

(***************************************************************************)
(* _validate_multicity_segments alone, on every text of ArrayTexts and     *)
(* OddTexts.                                                               *)
(***************************************************************************)
InitSeg ==
    /\ api_key = PyStr("secret")
    /\ \E t \in ArrayTexts \cup OddTexts \cup {<<>>} :
          req = [DefaultRequest EXCEPT !.trip_type = PyStr("multicity"),
                                       !.multi_city_json = Text(t)]
    /\ max_price = None
    /\ pc = "parse"
    /\ type_param = 0
    /\ params = <<>>
    /\ segments = <<>>
    /\ i = 0
    /\ ret = NotReturned
    /\ gets = 0
    /\ outcome = NoOutcome

NextSeg ==
    \/ ParseSegments
    \/ ValidateSegment
    \/ ReturnSegments

SpecSeg == InitSeg /\ [][NextSeg]_vars

(***************************************************************************)
(* Properties.                                                             *)
(***************************************************************************)
IsRoundtrip == req.trip_type = PyStr("roundtrip")

IsMulticity == req.trip_type = PyStr("multicity")

\* params has been handed to requests.get, or is about to be
Built == pc = "get" \/ (pc = "done" /\ gets = 1)

\* the call ended in a validation error
ValidationError == pc = "done" /\ outcome.kind = "ValueError"

\* the decoded multi_city_json
Decoded == json_loads(req.multi_city_json.toks)

\* the segments as the caller sent them, when the text is a JSON array
Orig == Decoded.val.items

HasAll(seg) ==
    /\ seg.kind = "dict"
    /\ Truthy(Get(seg.d, "departure_id"))
    /\ Truthy(Get(seg.d, "arrival_id"))
    /\ Truthy(Get(seg.d, "date"))

\* C1: with SERPAPI_API_KEY unset or empty, a call goes no further than the
\* credential check, ends in the missing-credential error whatever its other
\* arguments are, and makes no HTTP GET.
C1_NoKeyNoRequest ==
    ~Truthy(api_key) =>
        /\ gets = 0
        /\ pc \in {"idle", "check_key", "done"}
        /\ params = <<>>
        /\ pc = "done" => outcome = Raise("EnvironmentError", "api_key_not_set", 0)

\* a call without credential whose round trip has no return date has ended
C1_Witness ==
    /\ ~Truthy(api_key)
    /\ pc = "done"
    /\ IsRoundtrip
    /\ ~Truthy(req.return_date)

\* C2: a call makes at most one HTTP GET, and only once the credential
\* check, the trip-type checks and the segment validation have passed; a call
\* that ends in a validation or credential error has made none, and a failed
\* request ends the call.
C2_OneGetAfterChecks ==
    /\ gets <= 1
    /\ gets = 1 =>
          /\ pc = "done"
          /\ outcome.kind \in {"returned", "HTTPError"}
    /\ Built =>
          /\ Truthy(api_key)
          /\ IsRoundtrip => Truthy(req.return_date)
          /\ IsMulticity =>
                /\ Truthy(req.multi_city_json)
                /\ Decoded.ok
                /\ Decoded.val.kind = "list"
                /\ ret.returned
                /\ i = Len(Orig)
                /\ \A j \in 1..Len(segments) : HasAll(segments[j])
    /\ outcome.kind \in {"ValueError", "EnvironmentError"} => gets = 0
    /\ outcome.kind = "HTTPError" => gets = 1 /\ pc = "done"

\* a multicity call whose request failed upstream has ended after one GET
C2_Witness ==
    /\ pc = "done"
    /\ outcome.kind = "HTTPError"
    /\ gets = 1
    /\ IsMulticity
    /\ Len(segments) = 2

\* C3: a round trip without return date ends in a validation error with no
\* parameter set; a round trip with a return date is built with type 1 and
\* with return_date as supplied.
C3_Roundtrip ==
    (Truthy(api_key) /\ IsRoundtrip) =>
        /\ ~Truthy(req.return_date) =>
              /\ pc \in {"check_key", "dispatch", "done"}
              /\ params = <<>>
              /\ gets = 0
              /\ pc = "done" =>
                    outcome = Raise("ValueError", "return_date_required", 0)
        /\ Truthy(req.return_date) =>
              /\ pc = "done" => outcome.kind \in {"returned", "HTTPError"}
              /\ Built =>
                    /\ type_param = 1
                    /\ params["type"] = PyInt(1)
                    /\ "return_date" \in DOMAIN params
                    /\ params["return_date"] = req.return_date

\* a round trip with a return date has been built
C3_Witness ==
    /\ pc = "get"
    /\ IsRoundtrip
    /\ req.return_date = PyStr("2025-07-03")
    /\ "return_date" \in DOMAIN params

\* C4: a request built as one-way (trip_type oneway, or anything that is
\* neither roundtrip nor multicity) has type 2 and no return_date key, also
\* when the caller supplied a return date.
C4_OnewayNoReturnDate ==
    (Built /\ ~IsRoundtrip /\ ~IsMulticity) =>
        /\ type_param = 2
        /\ params["type"] = PyInt(2)
        /\ "return_date" \notin DOMAIN params

\* a request of an unknown trip type with a return date has been built
C4_Witness ==
    /\ pc = "get"
    /\ req.trip_type = PyStr("weekend")
    /\ Truthy(req.return_date)
    /\ "type" \in DOMAIN params

\* C5: a multicity request whose multi_city_json is absent, empty or decodes
\* to no segment at all ends in a validation error and makes no request.
C5_EmptyItineraryRejected ==
    (/\ Truthy(api_key)
     /\ IsMulticity
     /\ \/ ~Truthy(req.multi_city_json)
        \/ (Decoded.ok /\ Decoded.val.kind = "list" /\ Len(Orig) = 0)) =>
        /\ ~Built
        /\ gets = 0
        /\ pc = "done" => outcome.kind = "ValueError"

\* C7: a maximum price that is present but no positive integer fails the
\* build; a positive one is in the parameter set unchanged; an absent one
\* adds nothing.
C7_MaxPriceChecked ==
    Built =>
        /\ _validate_max_price(max_price).ok
        /\ max_price # None =>
              /\ "max_price" \in DOMAIN params
              /\ params["max_price"] = max_price
        /\ max_price = None => "max_price" \notin DOMAIN params

\* C8: no value of a parameter set handed to the transport is None or "",
\* and the four passenger counts are always in it.
C8_NoNullNoEmpty ==
    Built =>
        /\ \A k \in DOMAIN params : params[k] # None /\ ~IsEmptyStr(params[k])
        /\ {"adults", "children", "infants_in_seat", "infants_on_lap"}
              \subseteq DOMAIN params

\* C9: a multicity build has multi_city_json and none of departure_id,
\* arrival_id, outbound_date, return_date; any other build has outbound_date
\* and no multi_city_json.
C9_OneDateSource ==
    Built =>
        IF IsMulticity
        THEN /\ "multi_city_json" \in DOMAIN params
             /\ DOMAIN params \cap {"departure_id", "arrival_id",
                                    "outbound_date", "return_date"} = {}
        ELSE /\ "outbound_date" \in DOMAIN params
             /\ "multi_city_json" \notin DOMAIN params

\* C6: when _validate_multicity_segments returns, every segment has a
\* departure, an arrival and a date; a segment that came without departure
\* (never the first) has the arrival of the segment before it, a segment
\* that came with one keeps it, and arrival and date are as they came.
C6_ReturnedSegmentsComplete ==
    ret.returned =>
        /\ Len(ret.val) = Len(Orig)
        /\ \A j \in 1..Len(ret.val) :
              /\ HasAll(ret.val[j])
              /\ Orig[j].kind = "dict"
              /\ DOMAIN ret.val[j].d = DOMAIN Orig[j].d \cup {"departure_id"}
              /\ ret.val[j].d["arrival_id"] = Get(Orig[j].d, "arrival_id")
              /\ ret.val[j].d["date"] = Get(Orig[j].d, "date")
              /\ IF Truthy(Get(Orig[j].d, "departure_id"))
                 THEN ret.val[j].d["departure_id"] = Orig[j].d["departure_id"]
                 ELSE /\ j > 1
                      /\ ret.val[j].d["departure_id"] = ret.val[j - 1].d["arrival_id"]

\* a two-segment itinerary whose second segment came without departure has
\* been returned
C6_Witness ==
    /\ ret.returned
    /\ Len(ret.val) = 2
    /\ ~Truthy(Get(Orig[2].d, "departure_id"))
    /\ ret.val[2].d["departure_id"] = PyStr("NRT")

NoDeparture(seg) == ~Truthy(Get(seg.d, "departure_id"))

NoArrival(seg) == ~Truthy(Get(seg.d, "arrival_id"))

NoDate(seg) == ~Truthy(Get(seg.d, "date"))

\* segment j of the itinerary as sent cannot pass, given that the ones
\* before it did
Fails(segs, j) ==
    \/ segs[j].kind # "dict"
    \/ NoArrival(segs[j])
    \/ NoDate(segs[j])
    \/ (NoDeparture(segs[j]) /\ j = 1)

\* the number of the first segment that cannot pass, 0 when all pass
FirstFailing(segs) ==
    IF \E j \in 1..Len(segs) : Fails(segs, j)
    THEN CHOOSE j \in 1..Len(segs) :
            Fails(segs, j) /\ \A h \in 1..(j - 1) : ~Fails(segs, h)
    ELSE 0

\* what is reported when the checks go departure, arrival, date
DepartureFirst(seg, j) ==
    IF NoDeparture(seg) /\ j = 1 THEN "missing_departure_first"
    ELSE IF NoArrival(seg) THEN "missing_arrival"
    ELSE IF NoDate(seg) THEN "missing_date"
    ELSE ""

\* what is reported when the checks go arrival, date, departure
ArrivalFirst(seg, j) ==
    IF NoArrival(seg) THEN "missing_arrival"
    ELSE IF NoDate(seg) THEN "missing_date"
    ELSE IF NoDeparture(seg) /\ j = 1 THEN "missing_departure_first"
    ELSE ""

\* the loop stopped at segment k: the segments before k are complete, the
\* ones after k are as they came
StoppedAt(k) ==
    /\ k = FirstFailing(Orig)
    /\ i = k - 1
    /\ \A j \in 1..(k - 1) : HasAll(segments[j])
    /\ \A j \in (k + 1)..Len(segments) : segments[j] = Orig[j]

\* C10 as amended: the loop goes through the segments in order, completes
\* each before it looks at the next, and stops at the first that fails,
\* reporting its number from 1; within a segment the departure is checked
\* first (an error in the first segment, else taken from the arrival before
\* it), then the arrival, then the date.
C10_DepartureArrivalDate ==
    /\ pc = "loop" => \A j \in 1..i : HasAll(segments[j])
    /\ ret.returned => FirstFailing(Orig) = 0
    /\ (ValidationError /\ outcome.seg > 0) =>
          /\ StoppedAt(outcome.seg)
          /\ Orig[outcome.seg].kind = "dict" =>
                outcome.msg = DepartureFirst(Orig[outcome.seg], outcome.seg)

\* a first segment without departure and without arrival has been reported
C10_Witness ==
    /\ ValidationError
    /\ outcome.seg = 1
    /\ Orig[1].kind = "dict"
    /\ NoDeparture(Orig[1])
    /\ NoArrival(Orig[1])
    /\ outcome.msg = "missing_departure_first"

\* C10 as claimed: within a segment the arrival is checked first, then the
\* date, then the departure.
C10_ArrivalDateDeparture ==
    /\ pc = "loop" => \A j \in 1..i : HasAll(segments[j])
    /\ ret.returned => FirstFailing(Orig) = 0
    /\ (ValidationError /\ outcome.seg > 0) =>
          /\ StoppedAt(outcome.seg)
          /\ Orig[outcome.seg].kind = "dict" =>
                outcome.msg = ArrivalFirst(Orig[outcome.seg], outcome.seg)

====
